---- MODULE Spec2Model ----
(***************************************************************************)
(* Model of UpgradesEventProcessor                                         *)
(* (core/lib/zksync_core/src/eth_watch/event_processors/upgrades.rs).      *)
(*                                                                         *)
(* One processor instance owns the watermark last_seen_version_id and is   *)
(* driven by process_events(storage, client, events).  The body of         *)
(* process_events is split at its suspension points (the .await calls into *)
(* the L1 client and the store): one step per log of the parse/resolve     *)
(* loop, one step for the filter, one step per version of the persist loop *)
(* and one step for the watermark update.                                  *)
(*                                                                         *)
(* The version store (protocol_versions_dal) and the pure function         *)
(* apply_upgrade are not part of the sources at hand; they are modelled    *)
(* from the specification's interface description (spec.md, sections 3,    *)
(* 4.5, 4.6 and 6).                                                        *)
(***************************************************************************)
EXTENDS Integers, Sequences, FiniteSets, TLC

\* ------------------------------------------------------------------ bounds
MaxId == 3      \* largest protocol version id that occurs in a log
MaxInit == 1    \* the store initially holds versions 1..N for an N in 1..MaxInit
MaxBatch == 2   \* largest number of logs in one batch

\* ------------------------------------------------------------- data model
Ids == 1 .. MaxId

None == "none"
Addresses == {"a1", "a2"}

\* The verifier contract a proposal with id i names, when it names one.
VerifierOf(i) == IF i % 2 = 1 THEN "a1" ELSE "a2"

\* upgrade_proposal_signature: the topic of ProposeTransparentUpgrade in the
\* historical ABI; other_signature stands for any other event's topic.
upgrade_proposal_signature == "ProposeTransparentUpgrade"
other_signature == "NewPriorityRequest"

\* zksync_contract().function("executeUpgrade").short_signature()
execute_upgrade_short_signature == "executeUpgrade"

\* The address of the diamond proxy the watcher is configured with.
DiamondProxy == "diamond_proxy"

\* The fields of UpgradesEventProcessor other than the watermark, as new()
\* sets them.
NewProcessor(address) ==
    [diamond_proxy_address |-> address,
     upgrade_proposal_signature |-> upgrade_proposal_signature,
     execute_upgrade_short_signature |-> execute_upgrade_short_signature]

\* The value process_events returns, or the way it ends.
ResultOk == "Ok"
ErrorLogParse == "Error::LogParse"
ErrorClient == "Error::Client"
PanicMissingPrevious == "panic: Expected previous version to be present in DB"
PanicStore == "panic: store write failed"
NoResult == "-"

\* web3 Log, reduced to what process_events reads: topics[0] and the payload.
\* An undecodable payload carries no fields (id 0, no verifier address).
Log(t, w, i, a) == [topic |-> t, wellformed |-> w, id |-> i, verifier_address |-> a]

Logs ==
    { Log(upgrade_proposal_signature, TRUE, i, a) : i \in Ids, a \in {None} }
        \cup { Log(upgrade_proposal_signature, TRUE, i, VerifierOf(i)) : i \in Ids }
        \cup { Log(upgrade_proposal_signature, FALSE, 0, None) }
        \cup { Log(other_signature, FALSE, 0, None), Log(other_signature, TRUE, MaxId, "a1") }

RECURSIVE SeqsUpTo(_, _)
SeqsUpTo(S, n) ==
    IF n = 0 THEN { <<>> }
    ELSE LET shorter == SeqsUpTo(S, n - 1)
         IN  shorter \cup { Append(s, x) : s \in { t \in shorter : Len(t) = n - 1 }, x \in S }

Batches == SeqsUpTo(Logs, MaxBatch)

\* ProtocolUpgrade::try_from(event): the decoded proposal, or an error.
ParseErr == [ok |-> FALSE, id |-> 0, verifier_address |-> None]
TryFrom(event) ==
    IF event.wellformed
    THEN [ok |-> TRUE, id |-> event.id, verifier_address |-> event.verifier_address]
    ELSE ParseErr

\* client.scheduler_vk_hash(address), when the call succeeds: the hash that is
\* hard-coded in the verifier contract at that address.
SchedulerVkHash(address) == IF address = "a1" THEN "vk_a1" ELSE "vk_a2"

\* ProtocolVersion as persisted: its id, its scheduler vk hash, and the id of
\* the version it was derived from.
GenesisVk == "vk_0"
NoVersion == [id |-> 0, vk |-> None, parent |-> 0]
InitialVersion(i) == [id |-> i, vk |-> GenesisVk, parent |-> i - 1]

\* previous_version.apply_upgrade(upgrade, scheduler_vk_hash)
ApplyUpgrade(previous, upgrade, scheduler_vk_hash) ==
    [id |-> upgrade.id,
     vk |-> IF scheduler_vk_hash = None THEN previous.vk ELSE scheduler_vk_hash,
     parent |-> previous.id]

\* protocol_versions_dal().load_previous_version(id)
LoadPreviousVersion(s, id) == IF id - 1 \in DOMAIN s THEN s[id - 1] ELSE NoVersion

\* protocol_versions_dal().save_protocol_version_with_tx(version), when durable
SaveProtocolVersion(s, version) ==
    [i \in DOMAIN s \cup {version.id} |-> IF i = version.id THEN version ELSE s[i]]

RECURSIVE SetMax(_)
SetMax(S) ==
    IF S = {} THEN 0
    ELSE LET x == CHOOSE y \in S : TRUE
             m == SetMax(S \ {x})
         IN  IF x > m THEN x ELSE m

\* max_applied_version_id(): what the owner of the processor seeds it with
MaxAppliedVersionId(s) == SetMax(DOMAIN s)

\* Mutant of SkipWhile: a filter, which drops every pair whose id is at or
\* below the watermark, wherever it stands.
SkipWhileFilterAll(ups, wm) == SelectSeq(ups, LAMBDA u : u.id > wm)

\* Mutant of SkipWhile: the comparison is < instead of <=.
RECURSIVE SkipWhileStrict(_, _)
SkipWhileStrict(ups, wm) ==
    IF ups = <<>> THEN <<>>
    ELSE IF Head(ups).id < wm THEN SkipWhileStrict(Tail(ups), wm)
    ELSE ups

\* upgrades.into_iter().skip_while(|(v, _)| v.id <= last_seen_version_id)
RECURSIVE SkipWhile(_, _)
SkipWhile(ups, wm) ==
    IF ups = <<>> THEN <<>>
    ELSE IF Head(ups).id <= wm THEN SkipWhile(Tail(ups), wm)
    ELSE ups

\* Mutant of LastId: the first element is taken instead of the last.
LastIdFirst(ups) == ups[1].id

\* new_upgrades.last().unwrap().0.id
LastId(ups) == ups[Len(ups)].id

\* The logs of a batch that reach try_from, and the ids they decode to.
IsProposal(event) == event.topic = upgrade_proposal_signature /\ TryFrom(event).ok
Proposals(batch) == SelectSeq(batch, IsProposal)
ProposalIds(batch) == [k \in 1 .. Len(Proposals(batch)) |-> TryFrom(Proposals(batch)[k]).id]

NonDecreasing(ids) == \A k \in 1 .. Len(ids) - 1 : ids[k] <= ids[k + 1]

\* The batch is the next chunk of the in-order stream of proposals 1, 2, 3, ..
\* of which ids 1..done were delivered before.
InOrderChunk(batch, done) ==
    /\ done >= 0
    /\ batch # <<>>
    /\ \A k \in 1 .. Len(batch) : IsProposal(batch[k]) /\ TryFrom(batch[k]).id = done + k

\* ------------------------------------------------------------------ state
\* consensus/era.rs: the two entry points, each called once.
Nodes == {"run_main_node", "run_external_node"}

\* The errors the consensus actor can fail with, and the values it ends with.
ActorErrors == {"e1", "e2"}
Err(e) == "Err: " \o e
ActorResults == {ResultOk} \cup { Err(e) : e \in ActorErrors }

\* tracing::info!(is_attester = secrets.attester_key.is_some(),
\*                is_validator = secrets.validator_key.is_some(), msg)
InfoLine(msg) == [level |-> "info", msg |-> msg]
ErrorLine(msg) == [level |-> "error", msg |-> msg]
RunningLine(sec, msg) ==
    [level |-> "info", msg |-> msg,
     is_attester |-> sec.attester_key, is_validator |-> sec.validator_key]

\* prover keystore.rs.  Directories, the keys of the prover's data, and the
\* contents a finalization-hints file can have.
Dirs == {"keys", "setup"}
BasicCircuits == "BasicCircuits"
NodeAggregation == "NodeAggregation"
Rounds == {BasicCircuits, NodeAggregation}
CircuitIds == {1, 2}
Hints == {"h1", "h2"}

\* ZkSyncRecursionLayerStorageType::NodeLayerCircuit as u8
NodeLayerCircuit == 2

\* ProverServiceDataKey { circuit_id, round }
Keys == [circuit_id : CircuitIds, round : Rounds]
NoKey == [circuit_id |-> 0, round |-> "-"]

\* ProverServiceDataKey::name(): distinct keys are given distinct names.
Name(key) == key.round \o "_" \o ToString(key.circuit_id)

\* ProverServiceDataKey::all(): the node aggregation round appears with the
\* node layer circuit only.
AllKeysSeq ==
    << [circuit_id |-> 1, round |-> BasicCircuits],
       [circuit_id |-> 2, round |-> BasicCircuits],
       [circuit_id |-> NodeLayerCircuit, round |-> NodeAggregation] >>
AllKeys == { AllKeysSeq[i] : i \in 1 .. Len(AllKeysSeq) }

\* enum ProverServiceDataType
VerificationKey == "VerificationKey"
SetupData == "SetupData"
FinalizationHints == "FinalizationHints"
SnarkVerificationKey == "SnarkVerificationKey"
ProverServiceDataType == {VerificationKey, SetupData, FinalizationHints, SnarkVerificationKey}

\* Keystore::new(basedir)
NewKeystore(basedir) == [basedir |-> basedir, setup_data_path |-> basedir]

\* PathBuf::join
Join(dir, file) == [dir |-> dir, file |-> file]
NoPath == [dir |-> "-", file |-> "-"]

\* Keystore::get_file_path(&self, key, service_data_type)
GetFilePath(ks, key, service_data_type) ==
    LET name == Name(key)
    IN  CASE service_data_type = VerificationKey ->
                Join(ks.basedir, "verification_" \o name \o "_key.json")
          [] service_data_type = SetupData ->
                Join(ks.setup_data_path, "setup_" \o name \o "_data.bin")
          [] service_data_type = FinalizationHints ->
                Join(ks.basedir, "finalization_hints_" \o name \o ".bin")
          [] service_data_type = SnarkVerificationKey ->
                Join(ks.basedir, "snark_verification_" \o name \o "_key.json")

\* Keystore::load_bincode_from_file(filepath): the content, or an error when
\* the file cannot be opened.
ErrRead == "Err: Failed reading setup-data from path"
ErrPanicked == "Err: future loading key panicked"
LoadBincodeFromFile(fs, filepath) ==
    IF filepath \in DOMAIN fs THEN fs[filepath] ELSE ErrRead

\* fs::write(filepath, serialized)
FsWrite(fs, filepath, data) ==
    [p \in DOMAIN fs \cup {filepath} |-> IF p = filepath THEN data ELSE fs[p]]

\* The record of the last operation on the keystore.
NoMapping == <<>>
Op(op, key, arg, path, res) ==
    [op |-> op, key |-> key, arg |-> arg, path |-> path, result |-> res,
     mapping |-> NoMapping]
NoOp == Op("-", NoKey, None, NoPath, NoResult)

\* A load task of load_key_mapping: not spawned, running, or finished.
NoTask == [status |-> "none", filepath |-> NoPath, data |-> None]
NoTasks == [k \in AllKeys |-> NoTask]

VARIABLES
    store,                  \* the version store: stored id -> ProtocolVersion
    last_seen_version_id,   \* the processor's watermark
    processor,              \* the processor's other fields
    pc,                     \* "Idle", "Parsing", "Persisting", "Returned"
    events,                 \* the batch of the current (or last) cycle
    pos,                    \* index of the next log of events to look at
    upgrades,               \* (upgrade, scheduler_vk_hash) pairs pushed so far
    new_upgrades,           \* what is left after skip_while
    next,                   \* index of the next element of new_upgrades
    last_id,                \* last_id, computed before the persist loop
    result,                 \* how the last cycle ended
    \* history of the current (or last) cycle
    wm0,                    \* watermark when the cycle started
    store0,                 \* store when the cycle started
    calls,                  \* the scheduler_vk_hash calls issued: address, answered
    loads,                  \* number of load_previous_version calls
    saved,                  \* ids of the versions saved, in order
    \* history of the processor instance, since new()
    seed,                   \* the watermark new() was given (0 once replay = -1)
    sorted,                 \* every batch so far was non-decreasing by id
    replay,                 \* ids 1..replay were delivered in order, in
                            \* consecutive batches, and nothing else (-1: no)
    written,                \* ids saved while replay >= 0, in order
    torn,                   \* a cycle has ended in a failure after it had saved
                            \* a part of its batch
    partial,                \* in a cycle that retries a batch: the batch and the
                            \* ids the cycle before has saved of it
    \* the dispatcher of the watcher
    pending,                \* the batch the dispatcher re-submits (<<>>: none)
    resubmitted,            \* the dispatcher has re-submitted the batch
    first_wm,               \* the watermark when the batch was first submitted
    \* consensus/era.rs: one call of run_main_node, one of run_external_node
    era_pc,                 \* per call: "start", "running", "returned"
    secrets,                \* per call: which keys the secrets hold
    actor,                  \* per call: how the consensus actor ended
    era_ret,                \* per call: the value returned to the caller
    era_log,                \* per call: the tracing lines written
    \* prover keystore.rs: one Keystore and the directory tree it works on
    keystore,               \* the Keystore: basedir, setup_data_path
    new_basedir,            \* the basedir Keystore::new was given
    files,                  \* the files written: path -> content
    ks_op,                  \* the last operation on the keystore
    tasks                   \* load_key_mapping: the spawned load tasks

vars == <<store, last_seen_version_id, processor, pc, events, pos, upgrades, new_upgrades,
          next, last_id, result, wm0, store0, calls, loads, saved,
          seed, sorted, replay, written, torn, partial, pending, resubmitted, first_wm,
          era_pc, secrets, actor, era_ret, era_log,
          keystore, new_basedir, files, ks_op, tasks>>

dispatcherVars == <<pending, resubmitted, first_wm>>
eraVars == <<era_pc, secrets, actor, era_ret, era_log>>
keystoreVars == <<keystore, new_basedir, files, ks_op, tasks>>

\* the state of the dispatcher and of the other components, not touched by
\* the processor
otherVars == <<dispatcherVars, eraVars, keystoreVars>>

\* the state of the processor, its store and its history
upgradeVars == <<store, last_seen_version_id, processor, pc, events, pos, upgrades,
                 new_upgrades, next, last_id, result, wm0, store0, calls, loads, saved,
                 seed, sorted, replay, written, torn, partial>>

histVars == <<seed, sorted, replay, written, torn, partial>>

NoPartial == [events |-> <<>>, saved |-> <<>>]

\* relevant_topic(&self)
relevant_topic == processor.upgrade_proposal_signature

cycleVars == <<events, pos, upgrades, new_upgrades, next, last_id, wm0, store0,
               calls, loads, saved>>

\* A processor seeded from the store, before its first cycle.
InitCycle ==
    /\ last_seen_version_id = MaxAppliedVersionId(store)
    /\ processor = NewProcessor(DiamondProxy)
    /\ pc = "Idle"
    /\ events = <<>>
    /\ pos = 1
    /\ upgrades = <<>>
    /\ new_upgrades = <<>>
    /\ next = 1
    /\ last_id = 0
    /\ result = NoResult
    /\ wm0 = last_seen_version_id
    /\ store0 = store
    /\ calls = <<>>
    /\ loads = 0
    /\ saved = <<>>
    /\ seed = last_seen_version_id
    /\ sorted = TRUE
    /\ replay = 0
    /\ written = <<>>
    /\ torn = FALSE
    /\ partial = NoPartial

\* The store holds versions 1..N and the processor is seeded from it.
InitProcessor ==
    /\ \E n \in 1 .. MaxInit : store = [i \in 1 .. n |-> InitialVersion(i)]
    /\ InitCycle

\* The dispatcher holds no batch.
NoDispatcher ==
    /\ pending = <<>>
    /\ resubmitted = FALSE
    /\ first_wm = 0

\* Neither entry point of consensus/era.rs has been called.
NoEra ==
    /\ era_pc = [n \in Nodes |-> "start"]
    /\ secrets = [n \in Nodes |-> [validator_key |-> FALSE, attester_key |-> FALSE]]
    /\ actor = [n \in Nodes |-> NoResult]
    /\ era_ret = [n \in Nodes |-> NoResult]
    /\ era_log = [n \in Nodes |-> <<>>]

\* A keystore on which nothing has been done.
NoKeystore ==
    /\ keystore = NewKeystore("keys")
    /\ new_basedir = "keys"
    /\ files = <<>>
    /\ ks_op = NoOp
    /\ tasks = NoTasks

Init == InitProcessor /\ NoDispatcher /\ NoEra /\ NoKeystore

\* ---------------------------------------------------------------- actions

\* UpgradesEventProcessor::new(diamond_proxy_address, last_seen_version_id),
\* called by the owner with the store's maximum id (restart of the watcher).
New ==
    /\ pc = "Idle"
    /\ last_seen_version_id' = MaxAppliedVersionId(store)
    /\ processor' = NewProcessor(DiamondProxy)
    /\ wm0' = last_seen_version_id'
    /\ seed' = last_seen_version_id'
    /\ sorted' = TRUE
    /\ replay' = 0
    /\ written' = <<>>
    /\ torn' = FALSE
    /\ partial' = NoPartial
    /\ UNCHANGED <<otherVars, store, pc, result, events, pos, upgrades, new_upgrades, next,
                   last_id, store0, calls, loads, saved>>

\* process_events is entered with a batch: let mut upgrades = Vec::new()
StartCycle(batch) ==
    /\ pc' = "Parsing"
    /\ events' = batch
    /\ pos' = 1
    /\ upgrades' = <<>>
    /\ new_upgrades' = <<>>
    /\ next' = 1
    /\ last_id' = 0
    /\ result' = NoResult
    /\ wm0' = last_seen_version_id
    /\ store0' = store
    /\ calls' = <<>>
    /\ loads' = 0
    /\ saved' = <<>>
    /\ sorted' = (sorted /\ NonDecreasing(ProposalIds(batch)))
    /\ replay' = IF InOrderChunk(batch, replay) THEN replay ELSE -1
    /\ written' = IF InOrderChunk(batch, replay) THEN written ELSE <<>>
    /\ seed' = IF InOrderChunk(batch, replay) THEN seed ELSE 0
    /\ partial' = NoPartial
    /\ UNCHANGED <<store, last_seen_version_id, processor, torn>>

\* Mutant of ProcessEvents: the call takes the processor by shared reference,
\* so that it can be entered while an earlier call is still in progress.
ProcessEventsReentrant ==
    /\ pc \in {"Idle", "Parsing", "Persisting"}
    /\ \E batch \in Batches : StartCycle(batch)
    /\ UNCHANGED otherVars

\* A call process_events(&mut self, storage: &mut StorageProcessor, client,
\* events): the exclusive borrows of the processor and of the storage
\* connection last for the whole call, so a call begins only when no other
\* call on the processor is in progress.
ProcessEvents ==
    /\ pc = "Idle"
    /\ \E batch \in Batches : StartCycle(batch)
    /\ UNCHANGED otherVars

\* The cycle ends with the value (or panic) r; nothing else changes.
Return(r) ==
    /\ pc' = "Returned"
    /\ result' = r

\* Mutant of Push: scheduler_vk_hash is declared outside the loop and assigned
\* only when the proposal names a verifier, so a proposal without one is
\* paired with the hash resolved for the proposal before it.
PushCarriesHash(upgrade, scheduler_vk_hash) ==
    /\ upgrades' = Append(upgrades,
                          [id |-> upgrade.id,
                           verifier_address |-> upgrade.verifier_address,
                           scheduler_vk_hash |->
                               IF scheduler_vk_hash = None /\ upgrades # <<>>
                               THEN upgrades[Len(upgrades)].scheduler_vk_hash
                               ELSE scheduler_vk_hash])
    /\ pos' = pos + 1
    /\ UNCHANGED <<pc, result>>

\* upgrades.push((upgrade, scheduler_vk_hash)) and on to the next log
Push(upgrade, scheduler_vk_hash) ==
    /\ upgrades' = Append(upgrades, [id |-> upgrade.id,
                                     verifier_address |-> upgrade.verifier_address,
                                     scheduler_vk_hash |-> scheduler_vk_hash])
    /\ pos' = pos + 1
    /\ UNCHANGED <<pc, result>>

\* The record of one scheduler_vk_hash call
Call(address, answered) == [address |-> address, answered |-> answered]

\* Mutant of ParseStep: a log that fails to decode is skipped.
ParseStepSkipBad ==
    /\ pc = "Parsing"
    /\ pos <= Len(events)
    /\ LET event == events[pos]
           upgrade == TryFrom(event)
       IN  IF event.topic # processor.upgrade_proposal_signature \/ ~upgrade.ok
           THEN /\ pos' = pos + 1
                /\ UNCHANGED <<pc, result, upgrades, calls>>
           ELSE IF upgrade.verifier_address # None
           THEN \E answered \in BOOLEAN :
                   /\ calls' = Append(calls, Call(upgrade.verifier_address, answered))
                   /\ IF answered
                      THEN Push(upgrade, SchedulerVkHash(upgrade.verifier_address))
                      ELSE /\ Return(ErrorClient)
                           /\ UNCHANGED <<pos, upgrades>>
           ELSE /\ Push(upgrade, None)
                /\ UNCHANGED calls
    /\ UNCHANGED <<otherVars, store, last_seen_version_id, processor, events, new_upgrades, next,
                   last_id, wm0, store0, loads, saved, histVars>>

\* Mutant of ParseStep: a scheduler_vk_hash call that fails is issued once
\* more before the error is returned.
ParseStepRetryAux ==
    /\ pc = "Parsing"
    /\ pos <= Len(events)
    /\ LET event == events[pos]
           upgrade == TryFrom(event)
       IN  IF event.topic # processor.upgrade_proposal_signature
           THEN /\ pos' = pos + 1
                /\ UNCHANGED <<pc, result, upgrades, calls>>
           ELSE IF ~upgrade.ok
           THEN /\ Return(ErrorLogParse)
                /\ UNCHANGED <<pos, upgrades, calls>>
           ELSE IF upgrade.verifier_address # None
           THEN \E answered \in BOOLEAN :
                   /\ calls' = Append(calls, Call(upgrade.verifier_address, answered))
                   /\ IF answered
                      THEN Push(upgrade, SchedulerVkHash(upgrade.verifier_address))
                      ELSE IF calls = <<>> \/ calls[Len(calls)].answered
                      THEN UNCHANGED <<pc, result, pos, upgrades>>
                      ELSE /\ Return(ErrorClient)
                           /\ UNCHANGED <<pos, upgrades>>
           ELSE /\ Push(upgrade, None)
                /\ UNCHANGED calls
    /\ UNCHANGED <<otherVars, store, last_seen_version_id, processor, events, new_upgrades, next,
                   last_id, wm0, store0, loads, saved, histVars>>

\* Mutant of ParseStep: the filter on topics[0] is missing, every log of the
\* batch is decoded.
ParseStepNoFilter ==
    /\ pc = "Parsing"
    /\ pos <= Len(events)
    /\ LET event == events[pos]
           upgrade == TryFrom(event)
       IN  IF ~upgrade.ok
           THEN /\ Return(ErrorLogParse)
                /\ UNCHANGED <<pos, upgrades, calls>>
           ELSE IF upgrade.verifier_address # None
           THEN \E answered \in BOOLEAN :
                   /\ calls' = Append(calls, Call(upgrade.verifier_address, answered))
                   /\ IF answered
                      THEN Push(upgrade, SchedulerVkHash(upgrade.verifier_address))
                      ELSE /\ Return(ErrorClient)
                           /\ UNCHANGED <<pos, upgrades>>
           ELSE /\ Push(upgrade, None)
                /\ UNCHANGED calls
    /\ UNCHANGED <<otherVars, store, last_seen_version_id, processor, events, new_upgrades, next,
                   last_id, wm0, store0, loads, saved, histVars>>

\* Mutant of ParseStep: a failed scheduler_vk_hash call is taken as None.
ParseStepSwallowAux ==
    /\ pc = "Parsing"
    /\ pos <= Len(events)
    /\ LET event == events[pos]
           upgrade == TryFrom(event)
       IN  IF event.topic # processor.upgrade_proposal_signature
           THEN /\ pos' = pos + 1
                /\ UNCHANGED <<pc, result, upgrades, calls>>
           ELSE IF ~upgrade.ok
           THEN /\ Return(ErrorLogParse)
                /\ UNCHANGED <<pos, upgrades, calls>>
           ELSE IF upgrade.verifier_address # None
           THEN \E answered \in BOOLEAN :
                   /\ calls' = Append(calls, Call(upgrade.verifier_address, answered))
                   /\ IF answered
                      THEN Push(upgrade, SchedulerVkHash(upgrade.verifier_address))
                      ELSE Push(upgrade, None)
           ELSE /\ Push(upgrade, None)
                /\ UNCHANGED calls
    /\ UNCHANGED <<otherVars, store, last_seen_version_id, processor, events, new_upgrades, next,
                   last_id, wm0, store0, loads, saved, histVars>>

\* One iteration of the first loop: the filter on topics[0], try_from, and the
\* scheduler_vk_hash call when the proposal names a verifier.  Both ? operators
\* return from process_events at once.
ParseStep ==
    /\ pc = "Parsing"
    /\ pos <= Len(events)
    /\ LET event == events[pos]
           upgrade == TryFrom(event)
       IN  IF event.topic # processor.upgrade_proposal_signature
           THEN /\ pos' = pos + 1
                /\ UNCHANGED <<pc, result, upgrades, calls>>
           ELSE IF ~upgrade.ok
           THEN /\ Return(ErrorLogParse)
                /\ UNCHANGED <<pos, upgrades, calls>>
           ELSE IF upgrade.verifier_address # None
           THEN \E answered \in BOOLEAN :
                   /\ calls' = Append(calls, Call(upgrade.verifier_address, answered))
                   /\ IF answered
                      THEN Push(upgrade, SchedulerVkHash(upgrade.verifier_address))
                      ELSE /\ Return(ErrorClient)
                           /\ UNCHANGED <<pos, upgrades>>
           ELSE /\ Push(upgrade, None)
                /\ UNCHANGED calls
    /\ UNCHANGED <<otherVars, store, last_seen_version_id, processor, events, new_upgrades, next,
                   last_id, wm0, store0, loads, saved, histVars>>

\* Mutant of FilterStep: when every proposal of the batch is skipped, the
\* watermark is set to the id of the batch's last proposal before Ok is
\* returned.
FilterStepRecordsLastSeen ==
    /\ pc = "Parsing"
    /\ pos > Len(events)
    /\ LET remaining == SkipWhile(upgrades, last_seen_version_id)
       IN  IF upgrades = <<>>
           THEN /\ Return(ResultOk)
                /\ UNCHANGED <<new_upgrades, last_id, last_seen_version_id>>
           ELSE IF remaining = <<>>
           THEN /\ Return(ResultOk)
                /\ last_seen_version_id' = LastId(upgrades)
                /\ UNCHANGED <<new_upgrades, last_id>>
           ELSE /\ new_upgrades' = remaining
                /\ last_id' = LastId(remaining)
                /\ pc' = "Persisting"
                /\ UNCHANGED <<result, last_seen_version_id>>
    /\ upgrades' = <<>>
    /\ UNCHANGED <<otherVars, store, processor, events, pos, next, wm0,
                   store0, calls, loads, saved, histVars>>

\* After the first loop: the two early returns, skip_while and last_id.
FilterStep ==
    /\ pc = "Parsing"
    /\ pos > Len(events)
    /\ LET remaining == SkipWhile(upgrades, last_seen_version_id)
       IN  IF upgrades = <<>> \/ remaining = <<>>
           THEN /\ Return(ResultOk)
                /\ UNCHANGED <<new_upgrades, last_id>>
           ELSE /\ new_upgrades' = remaining
                /\ last_id' = LastId(remaining)
                /\ pc' = "Persisting"
                /\ UNCHANGED result
    /\ upgrades' = <<>>
    /\ UNCHANGED <<otherVars, store, last_seen_version_id, processor, events, pos, next, wm0,
                   store0, calls, loads, saved, histVars>>

\* The save of new_version was durable: the loop goes on.
Saved(new_version) ==
    /\ store' = SaveProtocolVersion(store, new_version)
    /\ saved' = Append(saved, new_version.id)
    /\ written' = IF replay >= 0 THEN Append(written, new_version.id) ELSE written
    /\ next' = next + 1
    /\ UNCHANGED <<pc, result>>

\* Mutant of PersistStep: a proposal whose previous version is missing is
\* passed over (if let Some(..)) instead of ending the task.
PersistStepSkipMissing ==
    /\ pc = "Persisting"
    /\ next <= Len(new_upgrades)
    /\ LET upgrade == new_upgrades[next]
           previous_version == LoadPreviousVersion(store, upgrade.id)
           new_version == ApplyUpgrade(previous_version, upgrade, upgrade.scheduler_vk_hash)
       IN  /\ loads' = loads + 1
           /\ IF previous_version = NoVersion
              THEN /\ next' = next + 1
                   /\ UNCHANGED <<pc, result, store, saved, written>>
              ELSE \E durable \in BOOLEAN :
                      IF durable
                      THEN Saved(new_version)
                      ELSE /\ Return(PanicStore)
                           /\ UNCHANGED <<store, next, saved, written>>
    /\ UNCHANGED <<otherVars, last_seen_version_id, processor, events, pos, upgrades,
                   new_upgrades, last_id, wm0, store0, calls, seed, sorted, replay,
                   partial>>
    /\ torn' = (torn \/ (pc' = "Returned" /\ saved # <<>>))

\* Mutant of PersistStep: the previous version is the one of the watermark,
\* loaded for the first proposal and used for all of the batch.
PersistStepStaleBase ==
    /\ pc = "Persisting"
    /\ next <= Len(new_upgrades)
    /\ LET upgrade == new_upgrades[next]
           previous_version == LoadPreviousVersion(store, new_upgrades[1].id)
           new_version == ApplyUpgrade(previous_version, upgrade, upgrade.scheduler_vk_hash)
       IN  /\ loads' = loads + 1
           /\ IF previous_version = NoVersion
              THEN /\ Return(PanicMissingPrevious)
                   /\ UNCHANGED <<store, next, saved, written>>
              ELSE \E durable \in BOOLEAN :
                      IF durable
                      THEN Saved(new_version)
                      ELSE /\ Return(PanicStore)
                           /\ UNCHANGED <<store, next, saved, written>>
    /\ UNCHANGED <<otherVars, last_seen_version_id, processor, events, pos, upgrades,
                   new_upgrades, last_id, wm0, store0, calls, seed, sorted, replay,
                   partial>>
    /\ torn' = (torn \/ (pc' = "Returned" /\ saved # <<>>))

\* Mutant of PersistStep: the watermark is moved to each version as soon as
\* it is saved, instead of once after the loop.
PersistStepAdvancesWatermark ==
    /\ pc = "Persisting"
    /\ next <= Len(new_upgrades)
    /\ LET upgrade == new_upgrades[next]
           previous_version == LoadPreviousVersion(store, upgrade.id)
           new_version == ApplyUpgrade(previous_version, upgrade, upgrade.scheduler_vk_hash)
       IN  /\ loads' = loads + 1
           /\ IF previous_version = NoVersion
              THEN /\ Return(PanicMissingPrevious)
                   /\ UNCHANGED <<store, next, saved, written, last_seen_version_id>>
              ELSE \E durable \in BOOLEAN :
                      IF durable
                      THEN /\ Saved(new_version)
                           /\ last_seen_version_id' = new_version.id
                      ELSE /\ Return(PanicStore)
                           /\ UNCHANGED <<store, next, saved, written,
                                          last_seen_version_id>>
    /\ UNCHANGED <<otherVars, processor, events, pos, upgrades, new_upgrades, last_id,
                   wm0, store0, calls, seed, sorted, replay, partial>>
    /\ torn' = (torn \/ (pc' = "Returned" /\ saved # <<>>))

\* One iteration of the persist loop: load_previous_version(upgrade.id)
\* .expect(..), apply_upgrade, save_protocol_version_with_tx.  The value of the
\* save call is not used, so a write that is not durable can only end the
\* task inside the store call.
PersistStep ==
    /\ pc = "Persisting"
    /\ next <= Len(new_upgrades)
    /\ LET upgrade == new_upgrades[next]
           previous_version == LoadPreviousVersion(store, upgrade.id)
           new_version == ApplyUpgrade(previous_version, upgrade, upgrade.scheduler_vk_hash)
       IN  /\ loads' = loads + 1
           /\ IF previous_version = NoVersion
              THEN /\ Return(PanicMissingPrevious)
                   /\ UNCHANGED <<store, next, saved, written>>
              ELSE \E durable \in BOOLEAN :
                      IF durable
                      THEN Saved(new_version)
                      ELSE /\ Return(PanicStore)
                           /\ UNCHANGED <<store, next, saved, written>>
    /\ UNCHANGED <<otherVars, last_seen_version_id, processor, events, pos, upgrades,
                   new_upgrades, last_id, wm0, store0, calls, seed, sorted, replay,
                   partial>>
    /\ torn' = (torn \/ (pc' = "Returned" /\ saved # <<>>))

\* Mutant of Finish: after a successful cycle the signature to filter on is
\* taken anew, from an ABI in which the event has another signature.
FinishRefreshesSignature ==
    /\ pc = "Persisting"
    /\ next > Len(new_upgrades)
    /\ last_seen_version_id' = last_id
    /\ processor' = [processor EXCEPT !.upgrade_proposal_signature = other_signature]
    /\ Return(ResultOk)
    /\ UNCHANGED <<otherVars, store, cycleVars, histVars>>

\* After the persist loop: self.last_seen_version_id = last_id; Ok(())
Finish ==
    /\ pc = "Persisting"
    /\ next > Len(new_upgrades)
    /\ last_seen_version_id' = last_id
    /\ Return(ResultOk)
    /\ UNCHANGED <<otherVars, store, processor, cycleVars, histVars>>

\* The caller has taken the value process_events returned; the batch and the
\* locals of the call are gone, the processor waits for the next batch.
Poll ==
    /\ pc = "Returned"
    /\ pc' = "Idle"
    /\ events' = <<>>
    /\ pos' = 1
    /\ upgrades' = <<>>
    /\ new_upgrades' = <<>>
    /\ next' = 1
    /\ last_id' = 0
    /\ result' = NoResult
    /\ wm0' = last_seen_version_id
    /\ store0' = store
    /\ calls' = <<>>
    /\ loads' = 0
    /\ saved' = <<>>
    /\ replay' = IF replay >= 0 /\ result = ResultOk THEN replay + Len(events)
                 ELSE IF replay >= 0 /\ result = ErrorClient THEN replay
                 ELSE -1
    /\ written' = IF replay' >= 0 THEN written ELSE <<>>
    /\ seed' = IF replay' >= 0 THEN seed ELSE 0
    /\ partial' = NoPartial
    /\ UNCHANGED <<otherVars, store, last_seen_version_id, processor, sorted, torn>>

\* The caller retries the cycle: the last call ended in a store write that
\* failed, after it had saved a part of its batch, and process_events is
\* called again on the same processor with the same batch.
Retry ==
    /\ pc = "Returned"
    /\ result = PanicStore
    /\ saved # <<>>
    /\ pc' = "Parsing"
    /\ pos' = 1
    /\ upgrades' = <<>>
    /\ new_upgrades' = <<>>
    /\ next' = 1
    /\ last_id' = 0
    /\ result' = NoResult
    /\ wm0' = last_seen_version_id
    /\ store0' = store
    /\ calls' = <<>>
    /\ loads' = 0
    /\ saved' = <<>>
    /\ replay' = -1
    /\ written' = <<>>
    /\ seed' = 0
    /\ partial' = [events |-> events, saved |-> saved]
    /\ UNCHANGED <<otherVars, store, last_seen_version_id, processor, events, sorted, torn>>

Next ==
    \/ ProcessEvents
    \/ ParseStep
    \/ FilterStep
    \/ PersistStep
    \/ Finish
    \/ Poll
    \/ Retry
    \/ New

Spec == Init /\ [][Next]_vars

\* ------------------------------------------- the dispatcher and its retries

\* A well-formed, gap-free batch for a processor whose watermark is wm: every
\* log is a proposal that decodes, the ids are consecutive, and the first id
\* is not beyond wm + 1.
GapFree(batch, wm) ==
    /\ batch # <<>>
    /\ \A k \in 1 .. Len(batch) : IsProposal(batch[k])
    /\ TryFrom(batch[1]).id <= wm + 1
    /\ \A k \in 1 .. Len(batch) - 1 : TryFrom(batch[k + 1]).id = TryFrom(batch[k]).id + 1

\* The dispatcher holds one gap-free batch for a freshly seeded processor,
\* whose store holds versions 1..N for an N below MaxId.
LiveInit ==
    /\ \E n \in 1 .. MaxId - 1 : store = [i \in 1 .. n |-> InitialVersion(i)]
    /\ InitCycle
    /\ pending \in { batch \in Batches : GapFree(batch, last_seen_version_id) }
    /\ resubmitted = FALSE
    /\ first_wm = last_seen_version_id
    /\ NoEra
    /\ NoKeystore

\* The dispatcher gives its batch to process_events.
Submit ==
    /\ pc = "Idle"
    /\ result = NoResult
    /\ StartCycle(pending)
    /\ UNCHANGED otherVars

\* The cycle has ended on Error::Client (the auxiliary reader failed): the
\* dispatcher retries the whole cycle with the same batch.
Resubmit ==
    /\ pc = "Returned"
    /\ result = ErrorClient
    /\ StartCycle(pending)
    /\ resubmitted' = TRUE
    /\ UNCHANGED <<pending, first_wm, eraVars, keystoreVars>>

\* A step of the persist loop whose store write is durable.
DurablePersistStep == PersistStep /\ result' # PanicStore

LiveNext ==
    \/ Submit
    \/ Resubmit
    \/ ParseStep
    \/ FilterStep
    \/ DurablePersistStep
    \/ Finish

\* The task that runs process_events is scheduled as long as it can take a
\* step, and the dispatcher retries as long as the last cycle has failed.
LiveSpec == LiveInit /\ [][LiveNext]_vars /\ WF_vars(LiveNext)

\* ------------------------------------------------------ consensus/era.rs

\* The processor and its store, at rest.
NoUpgrades == InitProcessor /\ DOMAIN store = {1}

EraInit ==
    /\ NoUpgrades
    /\ NoDispatcher
    /\ NoKeystore
    /\ era_pc = [n \in Nodes |-> "start"]
    /\ secrets \in [Nodes -> [validator_key : BOOLEAN, attester_key : BOOLEAN]]
    /\ actor = [n \in Nodes |-> NoResult]
    /\ era_ret = [n \in Nodes |-> NoResult]
    /\ era_log = [n \in Nodes |-> <<>>]

eraFrame == <<upgradeVars, dispatcherVars, keystoreVars, secrets>>

\* run_main_node up to its await: the info line, then mn::run_main_node runs.
RunMainNodeCall ==
    LET n == "run_main_node"
    IN  /\ era_pc[n] = "start"
        /\ era_log' = [era_log EXCEPT ![n] =
                           Append(@, RunningLine(secrets[n], "running main node"))]
        /\ era_pc' = [era_pc EXCEPT ![n] = "running"]
        /\ UNCHANGED <<actor, era_ret, eraFrame>>

\* Mutant of RunMainNodeReturn: the actor's result is returned, as
\* run_external_node does.
RunMainNodeReturnPropagates ==
    LET n == "run_main_node"
    IN  /\ era_pc[n] = "running"
        /\ \E res \in ActorResults :
               /\ actor' = [actor EXCEPT ![n] = res]
               /\ era_log' = [era_log EXCEPT ![n] =
                      Append(@, IF res # ResultOk
                                THEN ErrorLine("Consensus actor failed: " \o res)
                                ELSE InfoLine("Consensus actor stopped"))]
               /\ era_ret' = [era_ret EXCEPT ![n] = res]
        /\ era_pc' = [era_pc EXCEPT ![n] = "returned"]
        /\ UNCHANGED eraFrame

\* run_main_node after its await: if let Err(err) = .. { tracing::error! }
\* else { tracing::info! }; Ok(())
RunMainNodeReturn ==
    LET n == "run_main_node"
    IN  /\ era_pc[n] = "running"
        /\ \E res \in ActorResults :
               /\ actor' = [actor EXCEPT ![n] = res]
               /\ era_log' = [era_log EXCEPT ![n] =
                      Append(@, IF res # ResultOk
                                THEN ErrorLine("Consensus actor failed: " \o res)
                                ELSE InfoLine("Consensus actor stopped"))]
        /\ era_ret' = [era_ret EXCEPT ![n] = ResultOk]
        /\ era_pc' = [era_pc EXCEPT ![n] = "returned"]
        /\ UNCHANGED eraFrame

\* run_external_node up to its await: the EN is built, the info line is
\* written, then en.run runs.
RunExternalNodeCall ==
    LET n == "run_external_node"
    IN  /\ era_pc[n] = "start"
        /\ era_log' = [era_log EXCEPT ![n] =
                           Append(@, RunningLine(secrets[n], "running external node"))]
        /\ era_pc' = [era_pc EXCEPT ![n] = "running"]
        /\ UNCHANGED <<actor, era_ret, eraFrame>>

\* run_external_node after its await: let res = en.run(..).await;
\* tracing::info!("Consensus actor stopped"); res
RunExternalNodeReturn ==
    LET n == "run_external_node"
    IN  /\ era_pc[n] = "running"
        /\ \E res \in ActorResults :
               /\ actor' = [actor EXCEPT ![n] = res]
               /\ era_ret' = [era_ret EXCEPT ![n] = res]
        /\ era_log' = [era_log EXCEPT ![n] = Append(@, InfoLine("Consensus actor stopped"))]
        /\ era_pc' = [era_pc EXCEPT ![n] = "returned"]
        /\ UNCHANGED eraFrame

EraNext ==
    \/ RunMainNodeCall
    \/ RunMainNodeReturn
    \/ RunExternalNodeCall
    \/ RunExternalNodeReturn

EraSpec == EraInit /\ [][EraNext]_vars

\* ------------------------------------------------------ prover keystore.rs

KeystoreInit ==
    /\ NoUpgrades
    /\ NoDispatcher
    /\ NoEra
    /\ \E basedir \in Dirs : keystore = NewKeystore(basedir) /\ new_basedir = basedir
    /\ files = <<>>
    /\ ks_op = NoOp
    /\ tasks = NoTasks

keystoreFrame == <<upgradeVars, dispatcherVars, eraVars, new_basedir>>

\* load_key_mapping has spawned its tasks and has not returned.
Joining == ks_op.op = "load_key_mapping" /\ ks_op.result = NoResult

\* Mutant of WithSetupPath: the path given replaces basedir as well.
WithSetupPathMovesBase ==
    /\ ~Joining
    /\ \E setup_data_path \in {None} \cup Dirs :
           /\ keystore' = IF setup_data_path # None
                           THEN NewKeystore(setup_data_path)
                           ELSE keystore
           /\ ks_op' = Op("with_setup_path", NoKey, setup_data_path, NoPath, ResultOk)
    /\ tasks' = NoTasks
    /\ UNCHANGED <<files, keystoreFrame>>

\* Keystore::with_setup_path(mut self, setup_data_path: Option<PathBuf>)
WithSetupPath ==
    /\ ~Joining
    /\ \E setup_data_path \in {None} \cup Dirs :
           /\ keystore' = IF setup_data_path # None
                           THEN [keystore EXCEPT !.setup_data_path = setup_data_path]
                           ELSE keystore
           /\ ks_op' = Op("with_setup_path", NoKey, setup_data_path, NoPath, ResultOk)
    /\ tasks' = NoTasks
    /\ UNCHANGED <<files, keystoreFrame>>

\* Keystore::save_finalization_hints(&self, key, hint)
SaveFinalizationHints ==
    /\ ~Joining
    /\ \E key \in Keys, hint \in Hints :
           LET filepath == GetFilePath(keystore, key, FinalizationHints)
           IN  /\ files' = FsWrite(files, filepath, hint)
               /\ ks_op' = Op("save_finalization_hints", key, hint, filepath, ResultOk)
    /\ tasks' = NoTasks
    /\ UNCHANGED <<keystore, keystoreFrame>>

\* Mutant of LoadFinalizationHints: the key is used as given.
LoadFinalizationHintsOwnFile ==
    /\ ~Joining
    /\ \E given \in Keys :
           LET filepath == GetFilePath(keystore, given, FinalizationHints)
           IN  ks_op' = Op("load_finalization_hints", given, None, filepath,
                           LoadBincodeFromFile(files, filepath))
    /\ tasks' = NoTasks
    /\ UNCHANGED <<keystore, files, keystoreFrame>>

\* Keystore::load_finalization_hints(&self, key)
LoadFinalizationHints ==
    /\ ~Joining
    /\ \E given \in Keys :
           LET key == IF given.round = NodeAggregation
                      THEN [given EXCEPT !.circuit_id = NodeLayerCircuit]
                      ELSE given
               filepath == GetFilePath(keystore, key, FinalizationHints)
           IN  ks_op' = Op("load_finalization_hints", given, None, filepath,
                           LoadBincodeFromFile(files, filepath))
    /\ tasks' = NoTasks
    /\ UNCHANGED <<keystore, files, keystoreFrame>>

\* Keystore::load_all_finalization_hints_mapping, up to the await of
\* join_all: one task is spawned for every key of all(), each with its path.
LoadKeyMapping ==
    /\ ~Joining
    /\ tasks' = [key \in AllKeys |->
                    [status |-> "running",
                     filepath |-> GetFilePath(keystore, key, FinalizationHints),
                     data |-> None]]
    /\ ks_op' = Op("load_key_mapping", NoKey, FinalizationHints, NoPath, NoResult)
    /\ UNCHANGED <<keystore, files, keystoreFrame>>

\* One spawned task runs to its end: it loads its file, or it panics.
TaskFinish ==
    /\ \E key \in AllKeys :
           /\ tasks[key].status = "running"
           /\ \E panics \in BOOLEAN :
                  LET data == LoadBincodeFromFile(files, tasks[key].filepath)
                  IN  tasks' = [tasks EXCEPT ![key] =
                          [@ EXCEPT !.status = IF panics THEN "panicked"
                                               ELSE IF data = ErrRead THEN "err" ELSE "ok",
                                    !.data = IF panics THEN None ELSE data]]
    /\ UNCHANGED <<keystore, files, ks_op, keystoreFrame>>

\* The index in all() of the first task that has not produced a value (0 if
\* there is none).
FirstNotOk(ts) ==
    LET bad == { i \in 1 .. Len(AllKeysSeq) : ts[AllKeysSeq[i]].status # "ok" }
    IN  IF bad = {} THEN 0 ELSE CHOOSE i \in bad : \A j \in bad : i <= j

\* for handle in .. { let (key, data) = handle.context(..)??; insert } Ok(mapping)
Collect(ts) ==
    LET f == FirstNotOk(ts)
    IN  [ks_op EXCEPT
            !.result = IF f = 0 THEN ResultOk
                       ELSE IF ts[AllKeysSeq[f]].status = "panicked" THEN ErrPanicked
                       ELSE ErrRead,
            !.mapping = IF f = 0 THEN [key \in AllKeys |-> ts[key].data] ELSE NoMapping]

\* Mutant of JoinAll: the handles are awaited one after the other, so the
\* first failure is returned while later tasks are still running.
JoinAllInTurn ==
    /\ Joining
    /\ LET f == FirstNotOk(tasks)
       IN  f = 0 \/ tasks[AllKeysSeq[f]].status \in {"err", "panicked"}
    /\ ks_op' = Collect(tasks)
    /\ UNCHANGED <<keystore, files, tasks, keystoreFrame>>

\* load_key_mapping after futures::future::join_all(handles).await: every
\* task has finished; the loop collects the values or returns the first error.
JoinAll ==
    /\ Joining
    /\ \A key \in AllKeys : tasks[key].status \in {"ok", "err", "panicked"}
    /\ ks_op' = Collect(tasks)
    /\ UNCHANGED <<keystore, files, tasks, keystoreFrame>>

KeystoreNext ==
    \/ WithSetupPath
    \/ SaveFinalizationHints
    \/ LoadFinalizationHints
    \/ LoadKeyMapping
    \/ TaskFinish
    \/ JoinAll

KeystoreSpec == KeystoreInit /\ [][KeystoreNext]_vars

\* ----------------------------------------------------------------- claims

\* A step of the persist loop has just saved a version; SavedId is its id.
SaveStep == Len(saved') = Len(saved) + 1
SavedId == saved[Len(saved)]

Contiguous(s) == DOMAIN s = 1 .. MaxAppliedVersionId(s)

RECURSIVE MinId(_)
MinId(ups) ==
    IF Len(ups) = 1 THEN ups[1].id
    ELSE LET m == MinId(Tail(ups)) IN IF ups[1].id < m THEN ups[1].id ELSE m

\* The cycle has touched neither the store nor the watermark.
Untouched ==
    /\ loads = 0
    /\ saved = <<>>
    /\ store = store0
    /\ last_seen_version_id = wm0

\* C1: across any sequence of process_events calls on one processor, each
\* protocol version id is saved at most once: no save is made for an id that
\* is already in the store.
C1_EachIdSavedAtMostOnce ==
    [][SaveStep => SavedId' \notin DOMAIN store]_vars

\* C2: as long as every batch delivered to the processor is internally
\* non-decreasing by id, the ids in the store form a contiguous range at every
\* moment and every save is for an id greater than all ids stored before.
C2_GapFreeStrictlyIncreasing ==
    /\ [](sorted => Contiguous(store))
    /\ [][(sorted /\ SaveStep) => SavedId' > MaxAppliedVersionId(store)]_vars

\* C3: for a processor seeded from the store's maximum id, in every reachable
\* state (between cycles, inside a cycle, after a failed cycle) the watermark
\* is at most the maximum version id in the store.
C3_WatermarkAtMostStoreMax ==
    last_seen_version_id <= MaxAppliedVersionId(store)

\* C3 witness: a cycle has failed after writing a part of its batch, and the
\* watermark lags the store.
C3_Witness ==
    /\ pc = "Returned"
    /\ result = PanicStore
    /\ saved # <<>>
    /\ last_seen_version_id < MaxAppliedVersionId(store)

\* Every proposal of the batch has an id at or below wm.
AllApplied(batch, wm) ==
    \A k \in 1 .. Len(ProposalIds(batch)) : ProposalIds(batch)[k] <= wm

\* C4: when every proposal id of the batch is at or below the watermark, the
\* cycle makes no load_previous_version and no save call and leaves the store
\* and the watermark as they were.
C4_ReplayIsNoOp ==
    (pc # "Idle" /\ AllApplied(events, wm0)) => Untouched

\* C4 witness: a batch of proposals, all already applied, has returned Ok.
C4_Witness ==
    /\ pc = "Returned"
    /\ result = ResultOk
    /\ Len(ProposalIds(events)) = Len(events)
    /\ Len(events) >= 1
    /\ AllApplied(events, wm0)
    /\ calls # <<>>

GapBatch == new_upgrades # <<>> /\ MinId(new_upgrades) > wm0 + 1

\* C6 (as stated): when a cycle reaches the persist loop with a batch whose
\* smallest remaining id is greater than watermark + 1, the call ends in a
\* failure: it neither returns success nor writes a version for that id.
C6_GapIsFatal ==
    (pc = "Returned" /\ GapBatch) =>
        /\ result # ResultOk
        /\ \A k \in 1 .. Len(saved) : saved[k] # MinId(new_upgrades)

\* C6 (amended): for a cycle that starts with the watermark equal to the
\* store's maximum id, the call ends in the missing-predecessor failure (the
\* expect on load_previous_version) and writes nothing at all.
C6_GapIsFatalAtStoreMax ==
    (pc = "Returned" /\ GapBatch /\ wm0 = MaxAppliedVersionId(store0)) =>
        /\ result = PanicMissingPrevious
        /\ saved = <<>>
        /\ store = store0
        /\ last_seen_version_id = wm0

\* C6 witness: a batch with a gap has ended in the missing-predecessor failure.
C6_Witness ==
    /\ pc = "Returned"
    /\ GapBatch
    /\ wm0 = MaxAppliedVersionId(store0)
    /\ result = PanicMissingPrevious
    /\ loads = 1

\* Every version was derived from the version with the id one below, and no
\* two versions from the same one.
LinearChain(s) ==
    /\ \A n \in DOMAIN s : s[n].id = n /\ s[n].parent = n - 1
    /\ \A m, n \in DOMAIN s : s[m].parent = s[n].parent => m = n

\* C7: every save of a version n derives it from the version n-1 that is in
\* the store at that moment, by the proposal with id n, and touches no other
\* version; in the store every version's direct predecessor is the version
\* with the id one below, so that no version has two direct predecessors or
\* two direct successors.
C7_LinearChainExtension ==
    /\ [](LinearChain(store))
    /\ [][SaveStep =>
            /\ SavedId' = new_upgrades[next].id
            /\ SavedId' - 1 \in DOMAIN store
            /\ store'[SavedId'] = ApplyUpgrade(store[SavedId' - 1], new_upgrades[next],
                                               new_upgrades[next].scheduler_vk_hash)
            /\ \A m \in DOMAIN store \ {SavedId'} : store'[m] = store[m]]_vars

\* C7 witness: two versions were derived in one cycle, the second from the
\* first.
C7_Witness ==
    /\ pc = "Returned"
    /\ Len(saved) = 2
    /\ saved[2] = saved[1] + 1
    /\ store[saved[2]].parent = saved[1]
    /\ store[saved[1]].vk # GenesisVk
    /\ store[saved[2]].vk = store[saved[1]].vk

\* A log that matches the processor's topic and fails to decode.
IsBad(event) == event.topic = upgrade_proposal_signature /\ ~TryFrom(event).ok
HasBadLog(batch) == \E k \in 1 .. Len(batch) : IsBad(batch[k])
FirstBad(batch) == CHOOSE k \in 1 .. Len(batch) :
                       IsBad(batch[k]) /\ \A j \in 1 .. k - 1 : ~IsBad(batch[j])

\* C8 (as stated): when a log of the batch that matches the processor's topic
\* fails to decode, no version is written, the watermark keeps its value, and
\* process_events returns Error::LogParse.
C8_BadLogAbortsWithParseError ==
    (pc # "Idle" /\ HasBadLog(events)) =>
        /\ Untouched
        /\ pc = "Returned" => result = ErrorLogParse

\* C8 (amended): .. and process_events returns Error::LogParse, unless the
\* scheduler_vk_hash call for a proposal earlier in the batch failed first, in
\* which case it returns that client error.
C8_BadLogAbortsCycle ==
    (pc # "Idle" /\ HasBadLog(events)) =>
        /\ Untouched
        /\ pc \in {"Parsing", "Returned"}
        /\ pc = "Returned" =>
              \/ result = ErrorLogParse /\ pos = FirstBad(events)
              \/ /\ result = ErrorClient
                 /\ pos < FirstBad(events)
                 /\ ~calls[Len(calls)].answered

\* C8 witness: a well-formed proposal was decoded, then a log of the same
\* batch failed to decode.
C8_Witness ==
    /\ pc = "Returned"
    /\ result = ErrorLogParse
    /\ upgrades # <<>>
    /\ upgrades[1].id > wm0

\* A scheduler_vk_hash call of the cycle has failed.
AuxFailed == \E k \in 1 .. Len(calls) : ~calls[k].answered

\* C9: when a scheduler_vk_hash call fails, the cycle ends there with the
\* client error: no version is written, no store access is made, and the
\* watermark is unchanged.
C9_AuxFailureAbortsCycle ==
    AuxFailed =>
        /\ pc = "Returned"
        /\ result = ErrorClient
        /\ Untouched

\* C9 witness: the call for an earlier proposal of the batch was answered,
\* then the call for a later one failed.
C9_Witness ==
    /\ AuxFailed
    /\ Len(calls) = 2
    /\ calls[1].answered
    /\ upgrades # <<>>
    /\ upgrades[1].id > wm0

\* C10: after a call that returned Ok and saved at least one version, the
\* watermark is the id of the last proposal of the batch, which is the id of
\* the version saved last.
C10_WatermarkIsLastId ==
    (pc = "Returned" /\ result = ResultOk /\ saved # <<>>) =>
        /\ last_seen_version_id = ProposalIds(events)[Len(ProposalIds(events))]
        /\ last_seen_version_id = SavedId

\* C10 witness: the leading proposal of the batch was skipped, the next one
\* saved, and the watermark moved to it.
C10_Witness ==
    /\ pc = "Returned"
    /\ result = ResultOk
    /\ saved # <<>>
    /\ Len(saved) < Len(ProposalIds(events))
    /\ ProposalIds(events)[1] <= wm0
    /\ last_seen_version_id = wm0 + 1

\* The cycle has ended without returning Ok: an error value or a panic.
Failed == pc = "Returned" /\ result # ResultOk

\* C11: inside a cycle the watermark is assigned by one step only, the last
\* one, which comes after every save of the cycle and returns Ok; while a cycle
\* runs, and after a cycle that failed at whatever stage, the watermark is the
\* one the cycle started with.
C11_WatermarkWrittenLastOnly ==
    /\ []((pc \in {"Parsing", "Persisting"} \/ Failed) => last_seen_version_id = wm0)
    /\ [][(pc # "Idle" /\ last_seen_version_id' # last_seen_version_id) =>
            /\ pc = "Persisting"
            /\ Len(saved) = Len(new_upgrades)
            /\ saved' = saved
            /\ store' = store
            /\ pc' = "Returned"
            /\ result' = ResultOk]_vars

\* C11 witness: a cycle saved a version, then failed on the next proposal of
\* its batch; the store has changed and the watermark has not.
C11_Witness ==
    /\ Failed
    /\ result = PanicMissingPrevious
    /\ saved # <<>>
    /\ store # store0
    /\ last_seen_version_id = wm0

\* process_events has returned Err(..) to its caller (it has not panicked).
ReturnedErr == pc = "Returned" /\ result \in {ErrorLogParse, ErrorClient}

\* The cycle has ended in the save of a derived version: the previous version
\* was loaded and the version was not saved.
SaveFailed ==
    /\ pc = "Returned"
    /\ loads > Len(saved)
    /\ next <= Len(new_upgrades)
    /\ LoadPreviousVersion(store, new_upgrades[next].id) # NoVersion

\* C12: when the save of a derived version fails, process_events returns an
\* error value to its caller: it does not return Ok, and the watermark is not
\* advanced.
C12_SaveFailureIsReturned ==
    SaveFailed => (ReturnedErr /\ last_seen_version_id = wm0)

StrictlyIncreasing(ids) == \A k \in 1 .. Len(ids) - 1 : ids[k] < ids[k + 1]

\* The cycle is a retry: it was given the batch of the cycle before it (a
\* batch of increasing ids), which ended in a store write that failed, after
\* the versions with the ids partial.saved had been saved.
Retrying ==
    /\ pc # "Idle"
    /\ partial.saved # <<>>
    /\ StrictlyIncreasing(ProposalIds(events))
WrittenBefore == { partial.saved[j] : j \in 1 .. Len(partial.saved) }

\* C13: when a cycle has failed after saving a part of its batch and the same
\* batch is given to the same processor again, the retry passes over the ids
\* that were saved: it loads, derives and saves only the rest of the batch.
C13_RetrySkipsWrittenIds ==
    Retrying =>
        /\ \A k \in 1 .. Len(new_upgrades) : new_upgrades[k].id \notin WrittenBefore
        /\ \A k \in 1 .. Len(saved) : saved[k] \notin WrittenBefore

\* C14: no step of process_events changes a field of the processor other than
\* last_seen_version_id: relevant_topic() gives the same topic before and after
\* every step of every cycle, successful or failed, and diamond_proxy_address
\* and the two signatures are the ones new() has set.
C14_OnlyWatermarkChanges ==
    /\ [](/\ relevant_topic = upgrade_proposal_signature
          /\ processor = NewProcessor(processor.diamond_proxy_address))
    /\ [][(pc # "Idle" \/ pc' # "Idle") =>
            /\ processor' = processor
            /\ relevant_topic' = relevant_topic]_vars

\* C14 witness: after a cycle that moved the watermark, a later cycle has
\* saved a version and then failed; the topic is the one set at construction.
C14_Witness ==
    /\ Failed
    /\ saved # <<>>
    /\ wm0 > MaxInit
    /\ last_seen_version_id = wm0
    /\ relevant_topic = upgrade_proposal_signature

Decoded(batch) == [k \in 1 .. Len(Proposals(batch)) |-> TryFrom(Proposals(batch)[k])]

\* The index of the first proposal whose id is above wm; one past the end if
\* there is none.
FirstNew(ds, wm) ==
    IF \E k \in 1 .. Len(ds) : ds[k].id > wm
    THEN CHOOSE k \in 1 .. Len(ds) :
             ds[k].id > wm /\ \A j \in 1 .. k - 1 : ds[j].id <= wm
    ELSE Len(ds) + 1

\* The filter of the cycle has run.
Filtered == pc = "Persisting" \/ (pc = "Returned" /\ pos > Len(events))

\* C16: what the filter hands to the persist loop is the batch's proposals
\* from the first one whose id is above the watermark to the last one, as they
\* stand in the batch: the leading proposals with an id at or below the
\* watermark are dropped and nothing else is, and nothing is reordered.
C16_FilterDropsLeadingRunOnly ==
    Filtered =>
        LET ds == Decoded(events)
            first == FirstNew(ds, wm0)
        IN  /\ Len(new_upgrades) = Len(ds) - first + 1
            /\ \A j \in 1 .. Len(new_upgrades) :
                   /\ new_upgrades[j].id = ds[first + j - 1].id
                   /\ new_upgrades[j].verifier_address = ds[first + j - 1].verifier_address

\* C16 witness: a proposal with an id at or below the watermark stands behind
\* one with an id above it, and is kept.
C16_Witness ==
    /\ pc = "Persisting"
    /\ Len(new_upgrades) = 2
    /\ new_upgrades[1].id > wm0
    /\ new_upgrades[2].id <= wm0

\* The decoded proposals that name a verifier contract.
WithVerifier(ds) == SelectSeq(ds, LAMBDA d : d.verifier_address # None)

\* The hash that belongs to a proposal: the one of its own verifier contract.
OwnHash(u) ==
    IF u.verifier_address = None THEN None ELSE SchedulerVkHash(u.verifier_address)

\* C17: in a cycle in which every log decoded and every call was answered,
\* the scheduler_vk_hash calls are, in order, one for each proposal of the
\* batch that names a verifier (skipped or not) and none besides; every pair
\* handed to the persist loop holds the hash of the proposal's own verifier,
\* or None when it names none, and that is the hash apply_upgrade is given.
C17_OneCallPerVerifierAndOwnHash ==
    /\ [](Filtered =>
            LET called == WithVerifier(Decoded(events))
            IN  /\ Len(calls) = Len(called)
                /\ \A k \in 1 .. Len(calls) :
                       calls[k] = Call(called[k].verifier_address, TRUE)
                /\ \A j \in 1 .. Len(new_upgrades) :
                       new_upgrades[j].scheduler_vk_hash = OwnHash(new_upgrades[j]))
    /\ [][SaveStep =>
            store'[SavedId'] = ApplyUpgrade(store[SavedId' - 1], new_upgrades[next],
                                            OwnHash(new_upgrades[next]))]_vars

\* C17 witness: the first proposal of the batch names a verifier and has an id
\* at or below the watermark, the second names none; one call was made, the
\* second proposal was applied and the version kept its predecessor's hash.
C17_Witness ==
    /\ pc = "Returned"
    /\ result = ResultOk
    /\ Len(Decoded(events)) = 2
    /\ Decoded(events)[1].id <= wm0
    /\ Decoded(events)[1].verifier_address # None
    /\ Decoded(events)[2].verifier_address = None
    /\ Len(calls) = 1
    /\ saved = <<Decoded(events)[2].id>>
    /\ store[saved[1]].vk = store[saved[1] - 1].vk

\* The cycle has accessed the store.
StoreAccessed == loads > 0 \/ saved # <<>> \/ store # store0

\* C18: a cycle accesses the store only after its last scheduler_vk_hash call
\* has been answered: when a load or a save has been made, every log of the
\* batch has been gone through, every call the batch asks for has been issued
\* and answered, and no call is issued from then on.
C18_CallsBeforeStoreAccess ==
    /\ [](StoreAccessed =>
            /\ pos > Len(events)
            /\ Len(calls) = Len(WithVerifier(Decoded(events)))
            /\ \A k \in 1 .. Len(calls) : calls[k].answered)
    /\ [][(StoreAccessed /\ pc # "Returned") => calls' = calls]_vars

\* C18 witness: two calls were answered, then the persist loop has loaded a
\* previous version.
C18_Witness ==
    /\ pc = "Persisting"
    /\ loads > 0
    /\ Len(calls) = 2
    /\ calls[1].address # calls[2].address

\* The addresses scheduler_vk_hash was called with, in order.
CalledAddresses == [k \in 1 .. Len(calls) |-> calls[k].address]

\* The addresses the first n logs of the batch ask a call for.
AddressesOf(batch, n) ==
    LET ds == WithVerifier(Decoded(SubSeq(batch, 1, n)))
    IN  [k \in 1 .. Len(ds) |-> ds[k].verifier_address]

\* C19 (as stated): no scheduler_vk_hash call is issued before every matching
\* log of the batch has been parsed, so a batch that holds a log that fails to
\* decode causes no call at all.
C19_NoCallBeforeAllParsed ==
    (pc # "Idle" /\ HasBadLog(events)) => calls = <<>>

\* C19 (amended): parsing and resolution go log by log.  While the first loop
\* runs, the calls issued are those of the logs gone through so far, so the
\* call for a proposal is issued before the next log is parsed; a batch that
\* holds a log that fails to decode causes the calls of the proposals in front
\* of that log and no other; the filter and the persist loop come after the
\* last log, in that order.
C19_CallsInterleavedWithParsing ==
    /\ pc = "Parsing" =>
          /\ CalledAddresses = AddressesOf(events, pos - 1)
          /\ new_upgrades = <<>>
          /\ loads = 0
    /\ (pc = "Returned" /\ result = ErrorClient) =>
          CalledAddresses = AddressesOf(events, pos)
    /\ (pc # "Idle" /\ HasBadLog(events)) =>
          /\ pos <= FirstBad(events)
          /\ Len(calls) <= Len(AddressesOf(events, FirstBad(events) - 1))
          /\ (pc = "Returned" /\ result = ErrorLogParse) =>
                 CalledAddresses = AddressesOf(events, FirstBad(events) - 1)
    /\ pc = "Persisting" => (pos > Len(events) /\ new_upgrades # <<>>)

\* C19 witness: the call for the first proposal was issued and answered, then
\* the second log of the batch failed to decode.
C19_Witness ==
    /\ pc = "Returned"
    /\ result = ErrorLogParse
    /\ pos = 2
    /\ Len(calls) = 1
    /\ calls[1].answered

\* The first loop has ended in a parse failure or in a failed call.
ShortCircuited == pc = "Returned" /\ result \in {ErrorLogParse, ErrorClient}

\* C20: the first log that fails to decode, or the first call that fails,
\* ends the cycle at that log: the logs behind it are not parsed, no call is
\* issued after the failure, and a call that failed is the last call of the
\* cycle, issued once.
C20_FirstFailureShortCircuits ==
    /\ [](/\ \A k \in 1 .. Len(calls) - 1 : calls[k].answered
          /\ AuxFailed => (ShortCircuited /\ result = ErrorClient)
          /\ ShortCircuited =>
                /\ pos <= Len(events)
                /\ Len(upgrades) = Len(Decoded(SubSeq(events, 1, pos - 1)))
                /\ \A k \in 1 .. pos - 1 : ~IsBad(events[k])
                /\ result = ErrorLogParse =>
                       (IsBad(events[pos]) /\ ~AuxFailed
                           /\ Len(calls) = Len(AddressesOf(events, pos - 1)))
                /\ result = ErrorClient =>
                       (IsProposal(events[pos]) /\ ~calls[Len(calls)].answered
                           /\ Len(calls) = Len(AddressesOf(events, pos - 1)) + 1))
    /\ [][ShortCircuited => pc' = "Idle"]_vars

\* C20 witness: the call for the first proposal of the batch has failed; the
\* second log, a proposal that names a verifier, was neither parsed nor
\* resolved.
C20_Witness ==
    /\ ShortCircuited
    /\ result = ErrorClient
    /\ pos = 1
    /\ Len(events) = 2
    /\ IsProposal(events[2])
    /\ events[2].verifier_address # None
    /\ Len(calls) = 1
    /\ upgrades = <<>>

\* The persist loop is about to load the previous version of a proposal that
\* has none in the store.
PredecessorMissing ==
    /\ pc = "Persisting"
    /\ next <= Len(new_upgrades)
    /\ LoadPreviousVersion(store, new_upgrades[next].id) = NoVersion

\* The cycle has ended at a proposal whose previous version was not found.
EndedOnMissingPredecessor ==
    /\ pc = "Returned"
    /\ loads > Len(saved)
    /\ next <= Len(new_upgrades)
    /\ LoadPreviousVersion(store, new_upgrades[next].id) = NoVersion

\* C21 (as stated): when load_previous_version finds no predecessor, the call
\* does not abort the task: process_events returns an error value, which is
\* none of Ok, the parse error and the client error.
C21_MissingPredecessorIsReturned ==
    EndedOnMissingPredecessor =>
        /\ result \notin {PanicMissingPrevious, PanicStore}
        /\ result \notin {ResultOk, ErrorLogParse, ErrorClient}

\* C21 (amended): when load_previous_version finds no predecessor, the task
\* is aborted by the expect on the loaded value: nothing is returned, nothing
\* is saved for that proposal or for those behind it, the versions saved
\* before it stay, and the watermark is not moved.
C21_MissingPredecessorPanics ==
    [][(PredecessorMissing /\ loads' > loads) =>
          /\ pc' = "Returned"
          /\ result' = PanicMissingPrevious
          /\ store' = store
          /\ saved' = saved
          /\ next' = next
          /\ last_seen_version_id' = last_seen_version_id]_vars

\* C21 witness: the first proposal of the batch was saved and the second had
\* no previous version.
C21_Witness ==
    /\ EndedOnMissingPredecessor
    /\ result = PanicMissingPrevious
    /\ Len(saved) = 1
    /\ next = 2

\* A log that is not for this processor.
Foreign(event) == event.topic # relevant_topic
AllForeign(batch) == \A k \in 1 .. Len(batch) : Foreign(batch[k])

\* C22: a log whose topics[0] is not the processor's relevant_topic() is
\* passed over: the step that meets it goes on to the next log and changes
\* nothing else (no decoding, so no parse error, no call, no pair pushed, no
\* store access, no watermark change); a batch of such logs only returns Ok
\* without a call and without a store access.
C22_ForeignLogsHaveNoEffect ==
    /\ [][(pc = "Parsing" /\ pos <= Len(events) /\ Foreign(events[pos])) =>
            /\ pos' = pos + 1
            /\ pc' = "Parsing"
            /\ UNCHANGED <<result, upgrades, calls, loads, saved, store,
                           last_seen_version_id>>]_vars
    /\ []((pc # "Idle" /\ AllForeign(events)) =>
            /\ Untouched
            /\ calls = <<>>
            /\ upgrades = <<>>
            /\ pc \in {"Parsing", "Returned"}
            /\ pc = "Returned" => result = ResultOk)

\* C22 witness: a batch of two logs of another topic, the first with a
\* payload that would not decode, the second with one that would, has
\* returned Ok.
C22_Witness ==
    /\ pc = "Returned"
    /\ result = ResultOk
    /\ Len(events) = 2
    /\ AllForeign(events)
    /\ ~events[1].wellformed
    /\ events[2].wellformed
    /\ Untouched

\* The highest version id the processor has durably applied, or its seed if
\* it has applied none.  The processor is the only writer of the store and is
\* seeded with the store's maximum id, so this is the store's maximum id.
HighestApplied == MaxAppliedVersionId(store)

\* C23 (as stated): whenever no cycle is in progress, the watermark is the
\* highest version id the processor has durably applied, or its seed.
C23_WatermarkIsHighestApplied ==
    pc = "Idle" => last_seen_version_id = HighestApplied

\* C23 (amended): whenever no cycle is in progress, the watermark is at most
\* the highest version id the processor has durably applied (or its seed); it
\* is equal to it as long as every batch was non-decreasing by id and no cycle
\* has failed after saving a part of its batch.
C23_WatermarkIsHighestAppliedUnlessTorn ==
    pc = "Idle" =>
        /\ last_seen_version_id <= HighestApplied
        /\ (sorted /\ ~torn) => last_seen_version_id = HighestApplied

\* C23 witness: between cycles, after successful cycles and failed ones that
\* saved nothing, the watermark has moved from the seed to the store's
\* maximum.
C23_Witness ==
    /\ pc = "Idle"
    /\ sorted
    /\ ~torn
    /\ last_seen_version_id = HighestApplied
    /\ last_seen_version_id = MaxInit + 2

\* C25: as long as every batch given to the processor is non-decreasing by
\* id, no call lowers the watermark: during the call and after it, whether it
\* has succeeded or failed, the watermark is at least what it was when the
\* call began.
C25_WatermarkNeverDecreases ==
    (sorted /\ pc # "Idle") => last_seen_version_id >= wm0

\* C25 witness: a call on a batch of two proposals in increasing order has
\* moved the watermark up by two.
C25_Witness ==
    /\ sorted
    /\ pc = "Returned"
    /\ result = ResultOk
    /\ Len(ProposalIds(events)) = 2
    /\ ProposalIds(events)[1] = wm0 + 1
    /\ last_seen_version_id = wm0 + 2

\* The auxiliary reader has answered every call of the cycle: the parse loop
\* has gone through the whole batch.
AllAnswered == pc = "Parsing" /\ pos > Len(events) /\ events = pending

\* The last id of the dispatcher's batch.
PendingLast == TryFrom(pending[Len(pending)]).id

\* Every id of the dispatcher's batch is in the store.
BatchInStore == \A k \in 1 .. Len(pending) : TryFrom(pending[k]).id \in DOMAIN store

\* An id is saved only when it is above the watermark the cycle started with
\* and not yet in the store.
SavesOnlyNewIds ==
    SaveStep => /\ saved'[Len(saved')] \notin DOMAIN store
                /\ saved'[Len(saved')] > wm0

C26_MainNodeSwallowsExternalPropagates ==
    /\ era_pc["run_main_node"] = "returned" =>
           /\ era_ret["run_main_node"] = ResultOk
           /\ actor["run_main_node"] # ResultOk =>
                  era_log["run_main_node"][2] =
                      ErrorLine("Consensus actor failed: " \o actor["run_main_node"])
    /\ era_pc["run_external_node"] = "returned" =>
           era_ret["run_external_node"] = actor["run_external_node"]

\* C26 witness: both actors have failed with the same error; run_main_node has
\* returned Ok(()) and run_external_node has returned the error.
C26_Witness ==
    /\ \A n \in Nodes : era_pc[n] = "returned" /\ actor[n] = Err("e1")
    /\ era_ret["run_main_node"] = ResultOk
    /\ era_ret["run_external_node"] = Err("e1")

\* C27: with_setup_path(None) leaves the keystore unchanged and
\* with_setup_path(Some(p)) changes only setup_data_path, to p; after any
\* sequence of such calls only SetupData files resolve under
\* setup_data_path, and verification keys, finalization hints and the snark
\* verification key resolve under the basedir given at construction.
C27_SetupPathMovesSetupDataOnly ==
    /\ [][ks_op'.op = "with_setup_path" =>
             /\ keystore'.basedir = keystore.basedir
             /\ ks_op'.arg = None => keystore' = keystore
             /\ ks_op'.arg # None => keystore'.setup_data_path = ks_op'.arg]_vars
    /\ [](\A key \in Keys, service_data_type \in ProverServiceDataType :
             GetFilePath(keystore, key, service_data_type).dir =
                 IF service_data_type = SetupData THEN keystore.setup_data_path
                 ELSE new_basedir)

\* C27 witness: with_setup_path(None) has been called on a keystore whose
\* setup_data_path an earlier call has moved away from basedir.
C27_Witness ==
    /\ ks_op.op = "with_setup_path"
    /\ ks_op.arg = None
    /\ keystore.setup_data_path # keystore.basedir
    /\ keystore.basedir = new_basedir

\* The key whose file load_finalization_hints reads for a given key.
HintsKey(given) ==
    IF given.round = NodeAggregation
    THEN [circuit_id |-> NodeLayerCircuit, round |-> NodeAggregation]
    ELSE given

\* C28: load_finalization_hints reads, for a key of the NodeAggregation round,
\* the file of the NodeLayerCircuit circuit id whatever the key's circuit id
\* is, and for any other key the file of the key itself;
\* save_finalization_hints writes the file of the key itself.
C28_LoadSubstitutesNodeLayerSaveDoesNot ==
    /\ ks_op.op = "load_finalization_hints" =>
           /\ ks_op.path = GetFilePath(keystore, HintsKey(ks_op.key), FinalizationHints)
           /\ ks_op.result = IF ks_op.path \in DOMAIN files THEN files[ks_op.path]
                              ELSE ErrRead
    /\ ks_op.op = "save_finalization_hints" =>
           /\ ks_op.path = GetFilePath(keystore, ks_op.key, FinalizationHints)
           /\ files[ks_op.path] = ks_op.arg

\* C28 witness: hints were saved for the node layer key and for a
\* NodeAggregation key of another circuit id; the load for the latter has
\* returned the content of the former's file, not of its own.
C28_Witness ==
    LET own == GetFilePath(keystore, ks_op.key, FinalizationHints)
    IN  /\ ks_op.op = "load_finalization_hints"
        /\ ks_op.key.round = NodeAggregation
        /\ ks_op.key.circuit_id # NodeLayerCircuit
        /\ own \in DOMAIN files
        /\ ks_op.path # own
        /\ ks_op.result \in Hints
        /\ ks_op.result # files[own]

\* load_key_mapping has returned.
MappingReturned == ks_op.op = "load_key_mapping" /\ ks_op.result # NoResult

\* C29: load_key_mapping returns only after every spawned task has finished;
\* when all loads succeed the returned map has exactly one entry for every
\* key of all(), the content of that key's file; when a load fails or panics
\* it returns an error and no map.
C29_LoadKeyMappingAllOrNothing ==
    MappingReturned =>
        /\ \A key \in AllKeys : tasks[key].status \in {"ok", "err", "panicked"}
        /\ (\A key \in AllKeys : tasks[key].status = "ok") =>
               /\ ks_op.result = ResultOk
               /\ DOMAIN ks_op.mapping = AllKeys
               /\ \A key \in AllKeys :
                      ks_op.mapping[key] =
                          files[GetFilePath(keystore, key, FinalizationHints)]
        /\ (\E key \in AllKeys : tasks[key].status # "ok") =>
               /\ ks_op.result \in {ErrRead, ErrPanicked}
               /\ ks_op.mapping = NoMapping

\* C29 witness: one task has loaded its file, one has failed and one has
\* panicked; load_key_mapping has returned an error.
C29_Witness ==
    /\ MappingReturned
    /\ \E k1, k2, k3 \in AllKeys :
           /\ tasks[k1].status = "ok"
           /\ tasks[k2].status = "err"
           /\ tasks[k3].status = "panicked"
    /\ ks_op.result # ResultOk

\* C29, the other case: every task has loaded its file and load_key_mapping
\* has returned the full map.
C29_FullMap ==
    /\ MappingReturned
    /\ ks_op.result = ResultOk
    /\ DOMAIN ks_op.mapping = AllKeys

====
